---- MODULE Spec2Model ----
(***************************************************************************)
(* Model of the expense tracker (app.py): the user and expense tables, the *)
(* login session, the request in flight and the route handlers.  A handler *)
(* that goes to the store twice (register, edit, delete, dashboard) is two *)
(* steps, and requests of other threads are served between them.  Text     *)
(* inputs that the handlers parse (dates, amounts) are sequences of        *)
(* characters, parsed the way strptime('%Y-%m-%d') and float() parse them. *)
(* Amounts are IEEE-754 doubles, kept exactly as sign, odd significand and *)
(* power of two.                                                           *)
(***************************************************************************)
EXTENDS Integers, Sequences, FiniteSets, TLC

VARIABLES users, expenses, session, pending, last

vars == <<users, expenses, session, pending, last>>

----------------------------------------------------------------------------
(* Bounds of the model. *)

\* Largest expense id the model lets add_expense allocate.
MaxId == 2
\* Largest number of rows of a drawn expense table (SpecQuery).
MaxRows == 3

Usernames == {"alice", "bob"}
Passwords == {"pw1", "pw2"}
\* The credentials the registration form is sent.
Registrations ==
  { <<"alice", "pw1">>, <<"alice", "pw2">>, <<"bob", "pw1">> }

----------------------------------------------------------------------------
(* Characters.  A character is a string: an ASCII character is itself, any  *)
(* other one is named by its code point.                                    *)

AsciiDigits == <<"0", "1", "2", "3", "4", "5", "6", "7", "8", "9">>

\* Decimal digits outside ASCII (category Nd): the fullwidth and the
\* Arabic-Indic ones; the other blocks of Nd behave alike.
FullwidthDigits ==
  <<"U+FF10", "U+FF11", "U+FF12", "U+FF13", "U+FF14",
    "U+FF15", "U+FF16", "U+FF17", "U+FF18", "U+FF19">>

ArabicIndicDigits ==
  <<"U+0660", "U+0661", "U+0662", "U+0663", "U+0664",
    "U+0665", "U+0666", "U+0667", "U+0668", "U+0669">>

Range(seq) == {seq[k] : k \in 1..Len(seq)}

Digits == Range(AsciiDigits)

\* Characters str.isspace holds of: blank, tab, newline, carriage return,
\* form feed, no-break space, ideographic space; the others behave alike.
Whitespace == {" ", "\t", "\n", "\r", "\f", "U+00A0", "U+3000"}

\* The value of a decimal digit (int(c), the regular expression's \d), -1 for
\* any other character.
DecimalValue(c) ==
  IF \E k \in 1..10 : c \in {AsciiDigits[k], FullwidthDigits[k], ArabicIndicDigits[k]}
  THEN (CHOOSE k \in 1..10 :
          c \in {AsciiDigits[k], FullwidthDigits[k], ArabicIndicDigits[k]}) - 1
  ELSE -1

IsDecimal(c) == DecimalValue(c) >= 0

DigitChar(n) == AsciiDigits[n + 1]

RECURSIVE NumVal(_)
NumVal(s) ==
  IF s = <<>> THEN 0 ELSE 10 * NumVal(SubSeq(s, 1, Len(s) - 1)) + DecimalValue(s[Len(s)])

RECURSIVE Pow10(_)
Pow10(n) == IF n = 0 THEN 1 ELSE 10 * Pow10(n - 1)

Min(S) == CHOOSE x \in S : \A y \in S : x <= y

Max(S) == CHOOSE x \in S : \A y \in S : x >= y

----------------------------------------------------------------------------
(* datetime.strptime(s, '%Y-%m-%d').date() *)

NoDate == [y |-> 0, m |-> 0, d |-> 0]

IsLeap(y) == (y % 4 = 0 /\ y % 100 # 0) \/ y % 400 = 0

DaysInMonth(y, m) ==
  IF m = 2 THEN (IF IsLeap(y) THEN 29 ELSE 28)
  ELSE IF m \in {4, 6, 9, 11} THEN 30 ELSE 31

At(s, i) == IF i \in 1..Len(s) THEN s[i] ELSE ""

NonZeroDigits == Digits \ {"0"}

\* repr(s): the text between quotes, ' unless the text holds ' and no ";
\* the backslash, the quote and the characters str.isprintable does not hold
\* of are written as escapes (\t, \n, \r by name, the others of the model's
\* characters by code point: \x0c, \xa0, \u3000).
Repr(s) ==
  LET quote == IF "'" \in Range(s) /\ "\"" \notin Range(s) THEN "\"" ELSE "'"
      escaped(c) ==
        CASE c = "\\" -> "\\\\"
          [] c = quote -> "\\'"
          [] c = "\t" -> "\\t"
          [] c = "\n" -> "\\n"
          [] c = "\r" -> "\\r"
          [] c = "\f" -> "\\x0c"
          [] c = "U+00A0" -> "\\xa0"
          [] c = "U+3000" -> "\\u3000"
          [] OTHER -> c
  IN <<quote>> \o [i \in 1..Len(s) |-> escaped(s[i])] \o <<quote>>

\* The format as a regular expression, matched at the start of the string:
\* (\d\d\d\d)-(1[0-2]|0[1-9]|[1-9])-(3[01]|[12]\d|0[1-9]|[1-9]| [1-9]),
\* \d any decimal digit, the classes ASCII only.
\* %m-: the width of the month field that starts at 6 and is followed by '-',
\* 0 where none matches
MonthWidth(s) ==
  IF At(s, 6) = "1" /\ At(s, 7) \in {"0", "1", "2"} /\ At(s, 8) = "-" THEN 2
  ELSE IF At(s, 6) = "0" /\ At(s, 7) \in NonZeroDigits /\ At(s, 8) = "-" THEN 2
  ELSE IF At(s, 6) \in NonZeroDigits /\ At(s, 7) = "-" THEN 1
  ELSE 0

\* %d: the width of the day field that starts at q, the first alternative
\* that matches, 0 where none does
DayWidth(s, q) ==
  IF At(s, q) = "3" /\ At(s, q + 1) \in {"0", "1"} THEN 2
  ELSE IF At(s, q) \in {"1", "2"} /\ IsDecimal(At(s, q + 1)) THEN 2
  ELSE IF At(s, q) = "0" /\ At(s, q + 1) \in NonZeroDigits THEN 2
  ELSE IF At(s, q) \in NonZeroDigits THEN 1
  ELSE IF At(s, q) = " " /\ At(s, q + 1) \in NonZeroDigits THEN 2
  ELSE 0

\* What strptime ends with: the date and no error, or NoDate and str(e) of the
\* ValueError it raises.
StrpTime(s) ==
  LET mw == MonthWidth(s)
      q == 7 + mw
      dw == DayWidth(s, q)
      end == q + dw - 1
  IN IF (\E i \in 1..4 : ~IsDecimal(At(s, i))) \/ At(s, 5) # "-" \/ mw = 0 \/ dw = 0
     THEN [date |-> NoDate,
           error |-> <<"time data ">> \o Repr(s)
                       \o <<" does not match format '%Y-%m-%d'">>]
     ELSE IF Len(s) > end
     THEN [date |-> NoDate,
           error |-> <<"unconverted data remains: ">> \o SubSeq(s, end + 1, Len(s))]
     ELSE LET y == NumVal(SubSeq(s, 1, 4))
              m == NumVal(SubSeq(s, 6, 5 + mw))
              d == IF s[q] = " " THEN DecimalValue(s[end])
                   ELSE NumVal(SubSeq(s, q, end))
          IN IF y = 0
             THEN [date |-> NoDate, error |-> <<"year 0 is out of range">>]
             ELSE IF d > DaysInMonth(y, m)
             THEN [date |-> NoDate, error |-> <<"day is out of range for month">>]
             ELSE [date |-> [y |-> y, m |-> m, d |-> d], error |-> <<>>]

\* The date the string parses to, or NoDate where strptime raises ValueError.
ParseDate(s) == StrpTime(s).date

\* str(e) of that ValueError
DateError(s) == StrpTime(s).error

Pad(n, w) == [i \in 1..w |-> DigitChar((n \div Pow10(w - i)) % 10)]

\* The decimal digits of n >= 1, none leading.
RECURSIVE Decimal(_)
Decimal(n) ==
  IF n < 10 THEN <<DigitChar(n)>> ELSE Decimal(n \div 10) \o <<DigitChar(n % 10)>>

\* The text the store keeps for a Date column and is sent for a date bound:
\* date.isoformat(), YYYY-MM-DD with the year padded to four digits.
IsoFormat(dt) == Pad(dt.y, 4) \o <<"-">> \o Pad(dt.m, 2) \o <<"-">> \o Pad(dt.d, 2)

\* The store compares and sorts dates as these texts, which order as the
\* numbers YYYYMMDD do.
DateKey(dt) == NumVal(SubSeq(IsoFormat(dt), 1, 4)) * 10000
               + NumVal(SubSeq(IsoFormat(dt), 6, 7)) * 100
               + NumVal(SubSeq(IsoFormat(dt), 9, 10))

\* date.strftime('%Y-%m-%d') of the C library: %Y is the year as it is, not
\* padded (999-12-31); %m and %d are two digits.
FormatDate(dt) == Decimal(dt.y) \o <<"-">> \o Pad(dt.m, 2) \o <<"-">> \o Pad(dt.d, 2)

\* strftime('%m', date) of the store on the stored text, read back by
\* int(month)
MonthOf(dt) == NumVal(SubSeq(IsoFormat(dt), 6, 7))

----------------------------------------------------------------------------
(* Natural numbers of any size: sequences of limbs of LimbBits bits, the   *)
(* least significant first and the last one not 0; <<>> is 0.               *)

LimbBits == 15

Base == 2 ^ LimbBits

Limb(x, i) == IF i \in 1..Len(x) THEN x[i] ELSE 0

Trim(x) ==
  LET nz == {i \in 1..Len(x) : x[i] # 0}
  IN IF nz = {} THEN <<>> ELSE SubSeq(x, 1, Max(nz))

\* The number of bits of x, and bit i of x (bit 1 the least significant).
BitLen(x) ==
  IF x = <<>> THEN 0
  ELSE LimbBits * (Len(x) - 1) + Min({w \in 1..LimbBits : x[Len(x)] < (2 ^ w)})

Bit(x, i) ==
  IF i < 1 THEN 0
  ELSE (Limb(x, ((i - 1) \div LimbBits) + 1) \div (2 ^ ((i - 1) % LimbBits))) % 2

\* x + y: limb i takes a carry where a limb below overflows and every limb
\* between is full.
BAdd(x, y) ==
  LET n == Max({Len(x), Len(y)})
      s == [i \in 1..n |-> Limb(x, i) + Limb(y, i)]
      c == [i \in 1..(n + 1) |->
              IF \E j \in 1..(i - 1) :
                   s[j] >= Base /\ \A k \in (j + 1)..(i - 1) : s[k] = Base - 1
              THEN 1 ELSE 0]
  IN Trim([i \in 1..(n + 1) |-> ((IF i <= n THEN s[i] ELSE 0) + c[i]) % Base])

\* x - y for x >= y: limb i lends where a limb below is short and every limb
\* between is level.
BSub(x, y) ==
  LET b == [i \in 1..Len(x) |->
              IF \E j \in 1..(i - 1) :
                   x[j] < Limb(y, j) /\ \A k \in (j + 1)..(i - 1) : x[k] = Limb(y, k)
              THEN 1 ELSE 0]
  IN Trim([i \in 1..Len(x) |-> (x[i] - Limb(y, i) - b[i]) % Base])

BLess(x, y) ==
  IF Len(x) # Len(y) THEN Len(x) < Len(y)
  ELSE \E i \in 1..Len(x) : x[i] < y[i] /\ \A j \in (i + 1)..Len(x) : x[j] = y[j]

\* x * 2^k
ShiftLeft(x, k) ==
  LET r == k % LimbBits
  IN IF x = <<>> THEN <<>>
     ELSE Trim([i \in 1..(k \div LimbBits) |-> 0] \o
               [i \in 1..(Len(x) + 1) |->
                  ((Limb(x, i) * (2 ^ r)) % Base) + ((Limb(x, i - 1) * (2 ^ r)) \div Base)])

\* x \div 2^k
ShiftRight(x, k) ==
  LET q == k \div LimbBits
      r == k % LimbBits
  IN IF k <= 0 THEN x
     ELSE IF q >= Len(x) THEN <<>>
     ELSE Trim([i \in 1..(Len(x) - q) |->
                  (x[i + q] \div (2 ^ r)) + ((Limb(x, i + q + 1) % (2 ^ r)) * (2 ^ (LimbBits - r)))])

\* The lowest k bits of x are 0.
LowBitsZero(x, k) ==
  \/ k <= 0
  \/ /\ \A i \in 1..Len(x) : i <= k \div LimbBits => x[i] = 0
     /\ Limb(x, (k \div LimbBits) + 1) % (2 ^ (k % LimbBits)) = 0

\* The number of zero bits x ends with (x not 0).
LowZeros(x) == Max({k \in 0..(LimbBits * Len(x)) : LowBitsZero(x, k)})

\* n < 2^31 as limbs
FromNat(n) == Trim(<<n % Base, (n \div Base) % Base, n \div (Base * Base)>>)

\* x * d for d < Base
MulSmall(x, d) ==
  BAdd(Trim([i \in 1..Len(x) |-> (x[i] * d) % Base]),
       Trim(<<0>> \o [i \in 1..Len(x) |-> (x[i] * d) \div Base]))

RECURSIVE Mul(_, _)
Mul(x, y) ==
  IF x = <<>> \/ y = <<>> THEN <<>>
  ELSE IF Len(y) = 1 THEN MulSmall(x, y[1])
  ELSE LET h == Len(y) \div 2
       IN BAdd(Mul(x, Trim(SubSeq(y, 1, h))),
               ShiftLeft(Mul(x, SubSeq(y, h + 1, Len(y))), LimbBits * h))

RECURSIVE Pow5(_)
Pow5(k) ==
  IF k = 0 THEN <<1>>
  ELSE IF k % 2 = 1 THEN MulSmall(Pow5(k - 1), 5)
  ELSE LET h == Pow5(k \div 2) IN Mul(h, h)

\* The number a sequence of ASCII digits writes.
RECURSIVE DecimalBits(_)
DecimalBits(s) ==
  IF Len(s) <= 4 THEN FromNat(NumVal(s))
  ELSE LET h == Len(s) \div 2
           hi == DecimalBits(SubSeq(s, 1, h))
           lo == DecimalBits(SubSeq(s, h + 1, Len(s)))
       IN BAdd(ShiftLeft(Mul(hi, Pow5(Len(s) - h)), Len(s) - h), lo)

\* The largest q + j, j < 2^(b+1), with (q + j) * den <= rem.
RECURSIVE QuotLimb(_, _, _, _)
QuotLimb(rem, den, b, q) ==
  IF b < 0 THEN q
  ELSE IF BLess(rem, MulSmall(den, q + (2 ^ b))) THEN QuotLimb(rem, den, b - 1, q)
  ELSE QuotLimb(rem, den, b - 1, q + (2 ^ b))

\* Long division of num by den, limb by limb from the top down to limb i:
\* quotient and remainder.
RECURSIVE DivFrom(_, _, _)
DivFrom(num, den, i) ==
  IF i > Len(num) - (Len(den) - 1)
  THEN [q |-> <<>>, r |-> Trim(SubSeq(num, Max({i, 1}), Len(num)))]
  ELSE LET up == DivFrom(num, den, i + 1)
           r2 == Trim(<<num[i]>> \o up.r)
           ql == QuotLimb(r2, den, LimbBits - 1, 0)
       IN [q |-> <<ql>> \o up.q, r |-> BSub(r2, MulSmall(den, ql))]

DivMod(num, den) ==
  LET d == DivFrom(num, den, 1) IN [q |-> Trim(d.q), r |-> d.r]

----------------------------------------------------------------------------
(* Doubles.  A finite double is [k |-> "finite", s, m, e], the number      *)
(* (-1)^s * m * 2^e with m odd (or m = <<>>, e = 0 for zero) and at most   *)
(* Precision bits.                                                          *)

Precision == 53
\* The power of two of the last bit of the smallest doubles.
MinExp == -1074
\* Doubles are below 2^MaxExp.
MaxExp == 1024

Float(k, s, m, e) == [k |-> k, s |-> s, m |-> m, e |-> e]

Zero == Float("finite", 0, <<>>, 0)

Inf(s) == Float("inf", s, <<>>, 0)

NaN == Float("nan", 0, <<>>, 0)

\* What float() does on a text that is no number: raises ValueError.
NoFloat == Float("ValueError", 0, <<>>, 0)

\* The number (-1)^s * x * 2^e in the form above, nothing rounded.
Normalize(s, x, e) ==
  LET t == Trim(x)
  IN IF t = <<>> THEN Zero
     ELSE Float("finite", s, ShiftRight(t, LowZeros(t)), e + LowZeros(t))

\* The double nearest to (-1)^s * (x + f) * 2^e, 0 <= f < 1 and sticky
\* telling whether f > 0: ties go to the even significand, what is too large
\* becomes an infinity.
Round(s, x, e, sticky) ==
  LET t == Trim(x)
      shift == Max({BitLen(t) - Precision, MinExp - e})
      q == ShiftRight(t, shift)
      guard == Bit(t, shift)
      below == sticky \/ ~LowBitsZero(t, shift - 1)
      up == guard = 1 /\ (below \/ Bit(q, 1) = 1)
      r == IF up THEN BAdd(q, <<1>>) ELSE q
  IN IF t = <<>> THEN Zero
     ELSE IF shift <= 0
          THEN (IF BitLen(t) + e > MaxExp THEN Inf(s) ELSE Normalize(s, t, e))
          ELSE IF BitLen(r) + e + shift > MaxExp THEN Inf(s)
          ELSE Normalize(s, r, e + shift)

\* The exact sum of two finite doubles, of any length.
ExactAdd(a, b) ==
  IF a.m = <<>> THEN b
  ELSE IF b.m = <<>> THEN a
  ELSE LET e0 == Min({a.e, b.e})
           xa == ShiftLeft(a.m, a.e - e0)
           xb == ShiftLeft(b.m, b.e - e0)
       IN IF a.s = b.s THEN Normalize(a.s, BAdd(xa, xb), e0)
          ELSE IF BLess(xa, xb) THEN Normalize(b.s, BSub(xb, xa), e0)
          ELSE Normalize(a.s, BSub(xa, xb), e0)

\* a + b of doubles, as the store's sum() adds them: the exact sum rounded;
\* a number far below the last bit of the other changes nothing.
FAdd(a, b) ==
  IF a.k = "nan" \/ b.k = "nan" THEN NaN
  ELSE IF a.k = "inf" THEN (IF b.k = "inf" /\ b.s # a.s THEN NaN ELSE a)
  ELSE IF b.k = "inf" THEN b
  ELSE IF a.m = <<>> THEN b
  ELSE IF b.m = <<>> THEN a
  ELSE IF a.e + BitLen(a.m) > b.e + BitLen(b.m) + Precision + 3 THEN a
  ELSE IF b.e + BitLen(b.m) > a.e + BitLen(a.m) + Precision + 3 THEN b
  ELSE LET x == ExactAdd(a, b) IN Round(x.s, x.m, x.e, FALSE)

----------------------------------------------------------------------------
(* float(s) *)

\* Decimal digits and blanks outside ASCII are read as their ASCII ones.
ToAscii(c) ==
  IF IsDecimal(c) THEN DigitChar(DecimalValue(c))
  ELSE IF c \in Whitespace THEN " "
  ELSE c

Lower(c) ==
  CASE c = "I" -> "i" [] c = "N" -> "n" [] c = "F" -> "f" [] c = "T" -> "t"
    [] c = "Y" -> "y" [] c = "A" -> "a" [] c = "E" -> "e" [] OTHER -> c

\* s without the blanks it starts and ends with
Strip(s) ==
  LET inked == {i \in 1..Len(s) : s[i] # " "}
  IN IF inked = {} THEN <<>> ELSE SubSeq(s, Min(inked), Max(inked))

\* An underscore stands between two digits.
UnderscoresOk(s) ==
  \A i \in 1..Len(s) :
    s[i] = "_" => i > 1 /\ i < Len(s) /\ s[i - 1] \in Digits /\ s[i + 1] \in Digits

\* s without the zeros it starts with, and without those it ends with
StripLeft(s) ==
  LET nz == {i \in 1..Len(s) : s[i] # "0"}
  IN IF nz = {} THEN <<>> ELSE SubSeq(s, Min(nz), Len(s))

StripRight(s) ==
  LET nz == {i \in 1..Len(s) : s[i] # "0"}
  IN IF nz = {} THEN <<>> ELSE SubSeq(s, 1, Max(nz))

\* The double nearest to (-1)^sign * digits * 10^e10, digits without zeros at
\* either end: the number is an integer times 2^e10, or a quotient by a
\* power of 5, taken with enough bits to round it, times a power of 2.
DecimalToFloat(sign, digits, e10) ==
  IF digits = <<>> THEN Zero
  ELSE IF Len(digits) + e10 > 310 THEN Inf(sign)
  ELSE IF Len(digits) + e10 < -330 THEN Zero
  ELSE IF e10 >= 0
  THEN Round(sign, Mul(DecimalBits(digits), Pow5(e10)), e10, FALSE)
  ELSE LET n == DecimalBits(digits)
           den == Pow5(-e10)
           sh == Max({0, Precision + 3 + BitLen(den) - BitLen(n)})
           d == DivMod(ShiftLeft(n, sh), den)
       IN Round(sign, d.q, e10 - sh, d.r # <<>>)

\* The exponent an exponent field writes: its sign and digits; beyond five
\* digits every number but 0 is an infinity or rounds to 0.
ExponentVal(xs) ==
  LET neg == xs[1] = "-"
      ds == StripLeft(IF xs[1] \in {"+", "-"} THEN Tail(xs) ELSE xs)
      v == IF Len(ds) > 5 THEN 100000 ELSE NumVal(ds)
  IN IF neg THEN 0 - v ELSE v

\* [digits] ['.' [digits]] with a digit somewhere
MantissaOk(ms) ==
  /\ \E i \in 1..Len(ms) : ms[i] \in Digits
  /\ \A i \in 1..Len(ms) : ms[i] \in Digits \cup {"."}
  /\ Cardinality({i \in 1..Len(ms) : ms[i] = "."}) <= 1

\* ['+' | '-'] digits
ExponentOk(xs) ==
  LET ds == IF xs # <<>> /\ xs[1] \in {"+", "-"} THEN Tail(xs) ELSE xs
  IN ds # <<>> /\ \A i \in 1..Len(ds) : ds[i] \in Digits

\* The text after the sign: inf, infinity or nan in any case, or
\* mantissa [('e' | 'E') exponent].
UnsignedFloat(sign, t) ==
  LET low == [i \in 1..Len(t) |-> Lower(t[i])]
      es == {i \in 1..Len(t) : low[i] = "e"}
      p == IF es = {} THEN Len(t) + 1 ELSE Min(es)
      ms == SubSeq(t, 1, p - 1)
      xs == SubSeq(t, p + 1, Len(t))
      dots == {i \in 1..Len(ms) : ms[i] = "."}
      point == IF dots = {} THEN Len(ms) + 1 ELSE Min(dots)
      int == SubSeq(ms, 1, point - 1)
      frac == SubSeq(ms, point + 1, Len(ms))
      lead == StripLeft(int \o frac)
      digits == StripRight(lead)
      e10 == (IF es = {} THEN 0 ELSE ExponentVal(xs))
             - Len(frac) + (Len(lead) - Len(digits))
  IN IF low \in {<<"i", "n", "f">>, <<"i", "n", "f", "i", "n", "i", "t", "y">>}
     THEN Inf(sign)
     ELSE IF low = <<"n", "a", "n">> THEN NaN
     ELSE IF ~MantissaOk(ms) THEN NoFloat
     ELSE IF es # {} /\ ~ExponentOk(xs) THEN NoFloat
     ELSE DecimalToFloat(sign, digits, e10)

\* float(s): the double the text writes, or NoFloat where float() raises
\* ValueError.
FloatFromString(s) ==
  LET a == Strip([i \in 1..Len(s) |-> ToAscii(s[i])])
      t == SelectSeq(a, LAMBDA c : c # "_")
      signed == t # <<>> /\ t[1] \in {"+", "-"}
  IN IF ~UnderscoresOk(a) THEN NoFloat
     ELSE IF t = <<>> THEN NoFloat
     ELSE UnsignedFloat(IF t[1] = "-" THEN 1 ELSE 0,
                        IF signed THEN Tail(t) ELSE t)

----------------------------------------------------------------------------
(* The texts the requests carry. *)

D20240115 == <<"2", "0", "2", "4", "-", "0", "1", "-", "1", "5">>
D20240310 == <<"2", "0", "2", "4", "-", "0", "3", "-", "1", "0">>
\* 2023-03-01 with the year in fullwidth digits: strptime takes it
D20230301 == <<"U+FF12", "U+FF10", "U+FF12", "U+FF13", "-", "0", "3", "-", "0", "1">>
\* no such day
D20240230 == <<"2", "0", "2", "4", "-", "0", "2", "-", "3", "0">>
\* month and day without the leading zero: strptime takes it
D202331   == <<"2", "0", "2", "3", "-", "3", "-", "1">>

A350  == <<"3", ".", "5", "0">>
A1    == <<"1", ".", "0">>
A1e16 == <<"1", "e", "1", "6">>
Aabc  == <<"a", "b", "c">>
Anan  == <<"n", "a", "n">>

Form(desc, amount, date, category) ==
  [description |-> desc, amount |-> amount, date |-> date, category |-> category]

NoForm == Form("", <<>>, <<>>, "")

\* The forms add_expense and edit_expense are sent: two that the handlers
\* store, one with an amount that is no number, one with a date that is no
\* date, one with the amount nan, which float() takes and the store does not.
Forms ==
  { Form("Coffee", A350, D20240115, "Food"),
    Form("Tea", A1e16, D20230301, "Rent"),
    Form("Tea", Aabc, D20240310, "Rent"),
    Form("Tea", A1e16, D20240230, "Rent"),
    Form("Tea", Anan, D20240310, "Rent") }

\* The forms of the edits that overlap: the first two of above, the first
\* with another amount and nothing else changed, and the one whose date is
\* no date.
EditForms ==
  { Form("Coffee", A350, D20240115, "Food"),
    Form("Tea", A1e16, D20230301, "Rent"),
    Form("Coffee", A1, D20240115, "Food"),
    Form("Tea", A1e16, D20240230, "Rent") }

\* The start_date and end_date arguments of /expenses; <<>> is none given.
DateArgs == {<<>>, D20240115, D20240230, D202331}

\* The amounts of the forms and of the stored rows of SpecQuery, and float()
\* of each, computed once.
AmountInputs == {A350, A1, A1e16, Aabc, Anan}

FloatOfInput == [s \in AmountInputs |-> FloatFromString(s)]

\* float(s)
ParseFloat(s) == IF s \in AmountInputs THEN FloatOfInput[s] ELSE FloatFromString(s)

\* str(e) of the ValueError float(s) raises
FloatError(s) == <<"could not convert string to float: ">> \o Repr(s)

\* What the commit of a handler meets in the store: it goes through, or the
\* store raises (sqlite3.OperationalError, 'database is locked').
StoreOutcomes == {"ok", "OperationalError"}

\* str(e) of the exceptions of the store, up to the end of its first line (the
\* statement and its parameters follow).
OperationalError == <<"(sqlite3.OperationalError) database is locked">>

IntegrityError ==
  <<"(sqlite3.IntegrityError) NOT NULL constraint failed: expense.amount">>

StaleDataError ==
  <<"UPDATE statement on table 'expense' expected to update 1 row(s); 0 were matched.">>

Request(op, method, uid, username, id, form, start_date, end_date, store) ==
  [op |-> op, method |-> method, uid |-> uid, username |-> username, id |-> id,
   form |-> form, start_date |-> start_date, end_date |-> end_date, store |-> store]

\* A served request and its response.
Served(req, resp) == [req |-> req, resp |-> resp]

----------------------------------------------------------------------------
(* Responses.  A response is what the handler returns plus what it flashed. *)

\* A flashed message: the pieces of its text, in order.
Message(text) == <<text>>

NoData == [rows |-> <<>>, expense_data |-> {}, monthlyLabels |-> <<>>,
           monthlyData |-> <<>>]

Redirect(endpoint, flashes) ==
  [kind |-> "redirect", to |-> endpoint, flash |-> flashes, data |-> NoData]

Render(template, flashes, d) ==
  [kind |-> "render", to |-> template, flash |-> flashes, data |-> d]

\* An HTTP error response: 404 from get_or_404, 500 from an exception no
\* handler catches.
Abort(code) ==
  [kind |-> "abort", to |-> code, flash |-> <<>>, data |-> NoData]

NotFound == Abort("404")

InternalServerError == Abort("500")

\* No request served yet, or none whose response is on record.
NothingServed ==
  Served(Request("none", "GET", 0, "", 0, NoForm, <<>>, <<>>, "ok"), Abort("none"))

\* login_required with login_view = 'login': flash and redirect to the login page.
Unauthorized == Redirect("login", <<Message("Please log in to access this page.")>>)

\* current_user.is_authenticated
LoginRequiredOpen(s) == TRUE

LoginRequired(s) == s # 0

----------------------------------------------------------------------------
(* The user table and the authentication handlers. *)

\* generate_password_hash / check_password_hash
GeneratePasswordHash(pw) == [method |-> "pbkdf2:sha256", plain |-> pw]

CheckPasswordHash(h, pw) == h = GeneratePasswordHash(pw)

\* User.query.filter_by(username=username).first(): the user's id, or 0 for None
FirstUser(us, username) ==
  LET found == {i \in 1..Len(us) : us[i].username = username}
  IN IF found = {} THEN 0 ELSE Min(found)

\* db.session.add(new_user); db.session.commit() under unique=True on username:
\* the table after the insert, or the table as it was where the store raises
\* IntegrityError.
InsertUser(us, username, password) ==
  IF \E i \in 1..Len(us) : us[i].username = username
  THEN [ok |-> FALSE, users |-> us]
  ELSE [ok |-> TRUE,
        users |-> Append(us, [username |-> username,
                              password |-> GeneratePasswordHash(password)])]

DuplicateUsername == Redirect("register", <<Message("Username already exists!")>>)

Registered == Redirect("login", <<Message("Registration successful! Please log in.")>>)

\* register(), POST, up to the lookup: the username is taken
RegisterPostNoLookup(us, username) == FALSE

RegisterPost(us, username) == FirstUser(us, username) # 0

\* register(), the part after the lookup found no user: the insert and the
\* commit of lines 72-74.  No exception of the commit is caught: where the
\* store raises (the database is locked, or the username has been taken
\* since the lookup) no user is stored and the response is the 500 of Flask.
RegisterCommit(us, username, password, store) ==
  LET ins == InsertUser(us, username, password)
  IN IF store = "ok" /\ ins.ok
     THEN [users |-> ins.users, resp |-> Registered]
     ELSE [users |-> us, resp |-> InternalServerError]

\* login(), POST
LoginPost(us, s, username, password) ==
  LET user == FirstUser(us, username)
  IN IF user # 0 /\ CheckPasswordHash(us[user].password, password)
     THEN [session |-> user, resp |-> Redirect("expenses", <<>>)]
     ELSE [session |-> s,
           resp |-> Redirect("login", <<Message("Invalid username or password!")>>)]

----------------------------------------------------------------------------
(* The expense table.  expenses maps the ids of the stored rows to the rows; *)
(* a row is [description, amount, date, category, user_id].                  *)

NoRow == [description |-> "", amount |-> Zero, date |-> NoDate, category |-> "",
          user_id |-> 0]

\* The rowid the store gives the next inserted row: one more than the largest
\* in the table, so the id of a deleted last row is given again.
NextIdReuse(db) == IF DOMAIN db = {} THEN 1 ELSE Max(DOMAIN db)

NextId(db) == IF DOMAIN db = {} THEN 1 ELSE Max(DOMAIN db) + 1

\* INSERT INTO expense
Insert(db, row) ==
  [i \in DOMAIN db \cup {NextId(db)} |-> IF i \in DOMAIN db THEN db[i] ELSE row]

\* DELETE FROM expense WHERE id = ?: a row that is gone is no error
Delete(db, id) == [i \in DOMAIN db \ {id} |-> db[i]]

\* The columns, of those the handler assigns, whose value is no longer the
\* loaded one: the unit of work writes these and no other (nan equals
\* nothing).
Changed(loaded, obj) ==
  {c \in {"description", "amount", "date", "category"} :
     obj[c] # loaded[c] \/ (c = "amount" /\ obj.amount = NaN)}

\* UPDATE expense SET cols WHERE id = ?
Update(db, id, obj, cols) ==
  LET Val(c) == IF c \in cols THEN obj[c] ELSE db[id][c]
  IN [db EXCEPT ![id] =
        [description |-> Val("description"), amount |-> Val("amount"),
         date |-> Val("date"), category |-> Val("category"),
         user_id |-> db[id].user_id]]

\* What a query returns for row id: the row with its id.
Row(db, id) ==
  [id |-> id, description |-> db[id].description, amount |-> db[id].amount,
   date |-> db[id].date, category |-> db[id].category, user_id |-> db[id].user_id]

\* Expense.query.filter_by(user_id=current_user.id)
FilterByUser(db, uid) == {i \in DOMAIN db : db[i].user_id = uid}

\* The position of id in ord, the order in which the store scans the rows
\* (any order: the queries fix none but the one they ask for).
Pos(ord, id) == CHOOSE k \in 1..Len(ord) : ord[k] = id

Orders(S) ==
  {f \in [1..Cardinality(S) -> S] : \A i, j \in 1..Cardinality(S) : i # j => f[i] # f[j]}

\* order_by(Expense.date.desc()): latest first, rows of one date in scan order
RECURSIVE OrderByDateDesc(_, _, _)
OrderByDateDesc(db, ids, ord) ==
  IF ids = {} THEN <<>>
  ELSE LET first == CHOOSE i \in ids : \A j \in ids :
                      \/ DateKey(db[i].date) > DateKey(db[j].date)
                      \/ /\ DateKey(db[i].date) = DateKey(db[j].date)
                         /\ Pos(ord, i) <= Pos(ord, j)
       IN <<Row(db, first)>> \o OrderByDateDesc(db, ids \ {first}, ord)

\* db.func.sum(Expense.amount) over the rows ids: the store adds the amounts
\* one after the other in scan order.  (A sum that is no number, of
\* infinities of both signs, comes back as None; NaN stands for it.)
RECURSIVE SumAmounts(_, _, _)
SumAmounts(db, ids, ord) ==
  IF ord = <<>> THEN Zero
  ELSE LET n == Len(ord)
           acc == SumAmounts(db, ids, SubSeq(ord, 1, n - 1))
       IN IF ord[n] \in ids THEN FAdd(acc, db[ord[n]].amount) ELSE acc

----------------------------------------------------------------------------
(* The expense handlers.  uid is current_user.id; the handlers that write   *)
(* return the table they leave and their response.                          *)

\* One date bound of expenses(): the rows kept and the message flashed.
\* An absent or empty argument is no bound.
StartFilterStrict(db, ids, arg) ==
  LET bound == ParseDate(arg)
  IN IF arg = <<>> THEN [ids |-> ids, flash |-> <<>>]
     ELSE IF bound = NoDate
          THEN [ids |-> ids, flash |-> <<Message("Invalid start date format. Use YYYY-MM-DD.")>>]
          ELSE [ids |-> {i \in ids : DateKey(db[i].date) > DateKey(bound)},
                flash |-> <<>>]

StartFilter(db, ids, arg) ==
  LET bound == ParseDate(arg)
  IN IF arg = <<>> THEN [ids |-> ids, flash |-> <<>>]
     ELSE IF bound = NoDate
          THEN [ids |-> ids, flash |-> <<Message("Invalid start date format. Use YYYY-MM-DD.")>>]
          ELSE [ids |-> {i \in ids : DateKey(db[i].date) >= DateKey(bound)},
                flash |-> <<>>]

EndFilter(db, ids, arg) ==
  LET bound == ParseDate(arg)
  IN IF arg = <<>> THEN [ids |-> ids, flash |-> <<>>]
     ELSE IF bound = NoDate
          THEN [ids |-> ids, flash |-> <<Message("Invalid end date format. Use YYYY-MM-DD.")>>]
          ELSE [ids |-> {i \in ids : DateKey(db[i].date) <= DateKey(bound)},
                flash |-> <<>>]

\* expenses()
Expenses(db, uid, start_date, end_date, ord) ==
  LET q0 == FilterByUser(db, uid)
      q1 == StartFilter(db, q0, start_date)
      q2 == EndFilter(db, q1.ids, end_date)
  IN Render("expenses.html", q1.flash \o q2.flash,
            [NoData EXCEPT !.rows = OrderByDateDesc(db, q2.ids, ord)])

\* flash('Error adding expense: ' + str(e)); redirect to the form
ErrorAdding(e) == Redirect("add_expense", <<Message("Error adding expense: ") \o e>>)

\* The try block of add_expense(), date_obj and amount what strptime and
\* float() gave: strptime raised, or float() did, or the commit fails, or the
\* store takes no nan in a NOT NULL column, and the except branch answers;
\* else the row is stored.
NewExpense(db, uid, form, date_obj, amount, store) ==
  IF date_obj = NoDate
  THEN [expenses |-> db, resp |-> ErrorAdding(DateError(form.date))]
  ELSE IF amount = NoFloat
  THEN [expenses |-> db, resp |-> ErrorAdding(FloatError(form.amount))]
  ELSE IF store # "ok"
  THEN [expenses |-> db, resp |-> ErrorAdding(OperationalError)]
  ELSE IF amount = NaN
  THEN [expenses |-> db, resp |-> ErrorAdding(IntegrityError)]
  ELSE [expenses |-> Insert(db, [description |-> form.description,
                                 amount |-> amount, date |-> date_obj,
                                 category |-> form.category, user_id |-> uid]),
        resp |-> Redirect("expenses", <<Message("Expense added successfully!")>>)]

\* add_expense(), POST
AddExpensePost(db, uid, form, store) ==
  NewExpense(db, uid, form, ParseDate(form.date), ParseFloat(form.amount), store)

\* expense.user_id != current_user.id
NotOwnerNever(db, id, uid) == FALSE

NotOwner(db, id, uid) == db[id].user_id # uid

ForbiddenEdit ==
  Redirect("expenses", <<Message("You are not authorized to edit this expense.")>>)

ForbiddenDelete ==
  Redirect("expenses", <<Message("You are not authorized to delete this expense.")>>)

\* flash('Error updating expense: ' + str(e)); redirect to the form
ErrorUpdating(e) ==
  Redirect("edit_expense", <<Message("Error updating expense: ") \o e>>)

Updated == Redirect("expenses", <<Message("Expense updated successfully!")>>)

\* edit_expense(), POST by the owner: the assignments to the loaded object, in
\* the order the handler makes them.
AssignForm(loaded, form) ==
  [loaded EXCEPT !.description = form.description,
                 !.amount = ParseFloat(form.amount),
                 !.category = form.category,
                 !.date = ParseDate(form.date)]

\* edit_expense(expense_id) up to the commit: the response where the handler
\* ends before it (with nothing written: the request's session is dropped),
\* or that the commit is its next step.  float() is outside the try, strptime
\* inside.
EditExpense(db, uid, id, method, form) ==
  IF id \notin DOMAIN db THEN [commit |-> FALSE, resp |-> NotFound]
  ELSE IF NotOwner(db, id, uid) THEN [commit |-> FALSE, resp |-> ForbiddenEdit]
  ELSE IF method # "POST"
  THEN [commit |-> FALSE,
        resp |-> Render("edit_expense.html", <<>>,
                        [NoData EXCEPT !.rows = <<Row(db, id)>>])]
  ELSE IF ParseFloat(form.amount) = NoFloat
  THEN [commit |-> FALSE, resp |-> InternalServerError]
  ELSE IF ParseDate(form.date) = NoDate
  THEN [commit |-> FALSE, resp |-> ErrorUpdating(DateError(form.date))]
  ELSE [commit |-> TRUE, resp |-> Updated]

\* db.session.commit() of edit_expense and what follows it, loaded the row as
\* the handler read it and db the table as it is now: the UPDATE of the
\* changed columns (none changed: nothing is sent); a failing store, a row
\* that is gone (StaleDataError) and a nan amount (IntegrityError) end in the
\* except branch.
Flush(db, id, loaded, obj, store) ==
  LET cols == Changed(loaded, obj)
  IN IF cols = {} THEN [expenses |-> db, resp |-> Updated]
     ELSE IF store # "ok"
     THEN [expenses |-> db, resp |-> ErrorUpdating(OperationalError)]
     ELSE IF id \notin DOMAIN db
     THEN [expenses |-> db, resp |-> ErrorUpdating(StaleDataError)]
     ELSE IF obj.amount = NaN
     THEN [expenses |-> db, resp |-> ErrorUpdating(IntegrityError)]
     ELSE [expenses |-> Update(db, id, obj, cols), resp |-> Updated]

CommitEdit(db, id, loaded, form, store) ==
  Flush(db, id, loaded, AssignForm(loaded, form), store)

Deleted == Redirect("expenses", <<Message("Expense deleted successfully!")>>)

\* flash('Error deleting expense: ' + str(e)); redirect to the listing
ErrorDeleting(e) == Redirect("expenses", <<Message("Error deleting expense: ") \o e>>)

\* delete_expense(expense_id) up to the try
DeleteExpense(db, uid, id) ==
  IF id \notin DOMAIN db THEN [commit |-> FALSE, resp |-> NotFound]
  ELSE IF NotOwner(db, id, uid) THEN [commit |-> FALSE, resp |-> ForbiddenDelete]
  ELSE [commit |-> TRUE, resp |-> Deleted]

\* db.session.delete(expense); db.session.commit() and the except branch
CommitDelete(db, id, store) ==
  IF store # "ok" THEN [expenses |-> db, resp |-> ErrorDeleting(OperationalError)]
  ELSE [expenses |-> Delete(db, id), resp |-> Deleted]

\* query(category, sum(amount)).filter_by(user_id).group_by(category).all():
\* one (label, value) pair per category in use.
CategoryTotals(db, uid, ord) ==
  LET ids == FilterByUser(db, uid)
  IN {<<c, SumAmounts(db, {i \in ids : db[i].category = c}, ord)>> :
        c \in {db[i].category : i \in ids}}

month_abbr ==
  <<"Jan", "Feb", "Mar", "Apr", "May", "Jun", "Jul", "Aug", "Sep", "Oct", "Nov", "Dec">>

\* monthlyData: monthly_dict.get(i, 0) for i in range(1, 13), monthly_dict the
\* per-month sums of the grouped query.
MonthlyTotalsByDay(db, uid, ord) ==
  LET ids == FilterByUser(db, uid)
  IN [m \in 1..12 |->
        IF \E i \in ids : db[i].date.d = m
        THEN SumAmounts(db, {i \in ids : db[i].date.d = m}, ord)
        ELSE Zero]

MonthlyTotals(db, uid, ord) ==
  LET ids == FilterByUser(db, uid)
  IN [m \in 1..12 |->
        IF \E i \in ids : MonthOf(db[i].date) = m
        THEN SumAmounts(db, {i \in ids : MonthOf(db[i].date) = m}, ord)
        ELSE Zero]

\* dashboard(): the template and what it is given
Dashboard(expense_data, monthlyData) ==
  Render("dashboard.html", <<>>,
         [NoData EXCEPT !.expense_data = expense_data,
                        !.monthlyLabels = [i \in 1..12 |-> month_abbr[i]],
                        !.monthlyData = monthlyData])

\* The rows export() hands the csv writer after the header, latest first.
ExportRows(db, uid, ord) ==
  LET rows == OrderByDateDesc(db, FilterByUser(db, uid), ord)
  IN [k \in 1..Len(rows) |->
        <<FormatDate(rows[k].date), rows[k].description, rows[k].category,
          rows[k].amount>>]

\* export()
Export(db, uid, ord) ==
  [kind |-> "file", to |-> "expenses.csv", flash |-> <<>>,
   data |-> [NoData EXCEPT !.rows = <<<<"Date", "Description", "Category", "Amount">>>>
                                    \o ExportRows(db, uid, ord)]]

----------------------------------------------------------------------------
(* The state.  users and expenses are the two tables, session is the id of  *)
(* the user the browser is logged in as (0: nobody), pending is the request *)
(* in flight: one that has made its first round trip to the store and not   *)
(* yet its second.  Every request can be served whole, one round trip      *)
(* right after the other; the requests served between the two round trips   *)
(* of the one in flight are.  last is the request served last and its       *)
(* response; it is on record for the requests served whole with nothing     *)
(* in flight and for the request in flight when it ends.                    *)

NoPending ==
  [kind |-> "none", uid |-> 0, username |-> "", password |-> "", id |-> 0,
   form |-> NoForm, loaded |-> NoRow, expense_data |-> {}]

\* What goes on record for a request served whole.
Record(req, resp) == IF pending = NoPending THEN Served(req, resp) ELSE NothingServed

\* Initial state: empty tables (db.create_all() on a new file), no login.
Init ==
  /\ users = <<>>
  /\ expenses = <<>>
  /\ session = 0
  /\ pending = NoPending
  /\ last = NothingServed

----------------------------------------------------------------------------
(* One action per route, and one more per route that goes to the store     *)
(* twice, for its second round trip.                                        *)

\* GET /
Home ==
  /\ last' = Record(Request("home", "GET", session, "", 0, NoForm, <<>>, <<>>, "ok"),
                    IF session # 0 THEN Redirect("expenses", <<>>)
                    ELSE Render("home.html", <<>>, NoData))
  /\ UNCHANGED <<users, expenses, session, pending>>

\* GET /register
RegisterForm ==
  /\ last' = Record(Request("register", "GET", 0, "", 0, NoForm, <<>>, <<>>, "ok"),
                    Render("register.html", <<>>, NoData))
  /\ UNCHANGED <<users, expenses, session, pending>>

\* POST /register: the request served whole, or its lookup of line 69 alone
\* where that finds no user and nothing else is in flight
Register ==
  \E cred \in Registrations :
    IF RegisterPost(users, cred[1])
    THEN /\ last' = Record(Request("register", "POST", 0, cred[1], 0, NoForm,
                                   <<>>, <<>>, "ok"),
                           DuplicateUsername)
         /\ UNCHANGED <<users, expenses, session, pending>>
    ELSE \/ /\ pending = NoPending
            /\ pending' = [NoPending EXCEPT !.kind = "register",
                                            !.username = cred[1],
                                            !.password = cred[2]]
            /\ last' = NothingServed
            /\ UNCHANGED <<users, expenses, session>>
         \/ \E store \in StoreOutcomes :
              \E r \in {RegisterCommit(users, cred[1], cred[2], store)} :
                /\ users' = r.users
                /\ last' = Record(Request("register", "POST", 0, cred[1], 0, NoForm,
                                          <<>>, <<>>, store),
                                  r.resp)
                /\ UNCHANGED <<expenses, session, pending>>

\* POST /register from the insert of line 72 on
RegisterInsert ==
  /\ pending.kind = "register"
  /\ \E store \in StoreOutcomes :
       \E r \in {RegisterCommit(users, pending.username, pending.password, store)} :
         /\ users' = r.users
         /\ last' = Served(Request("register", "POST", 0, pending.username, 0,
                                   NoForm, <<>>, <<>>, store),
                           r.resp)
  /\ pending' = NoPending
  /\ UNCHANGED <<expenses, session>>

\* GET /login
LoginForm ==
  /\ last' = Record(Request("login", "GET", 0, "", 0, NoForm, <<>>, <<>>, "ok"),
                    Render("login.html", <<>>, NoData))
  /\ UNCHANGED <<users, expenses, session, pending>>

\* POST /login
Login ==
  \E username \in Usernames, password \in Passwords :
    \E r \in {LoginPost(users, session, username, password)} :
       /\ session' = r.session
       /\ last' = Record(Request("login", "POST", 0, username, 0, NoForm,
                                 <<>>, <<>>, "ok"),
                         r.resp)
       /\ UNCHANGED <<users, expenses, pending>>

\* GET /logout
Logout ==
  /\ session' = (IF LoginRequired(session) THEN 0 ELSE session)
  /\ last' = Record(Request("logout", "GET", session, "", 0, NoForm, <<>>, <<>>, "ok"),
                    IF LoginRequired(session)
                    THEN Redirect("home", <<Message("You have been logged out.")>>)
                    ELSE Unauthorized)
  /\ UNCHANGED <<users, expenses, pending>>

\* GET /expenses?start_date=..&end_date=.., the arguments drawn from args
ExpensesReq(args) ==
  \E start_date \in args, end_date \in args :
    \E ord \in Orders(IF LoginRequired(session)
                      THEN FilterByUser(expenses, session) ELSE {}) :
      /\ last' = Record(Request("expenses", "GET", session, "", 0, NoForm,
                                start_date, end_date, "ok"),
                        IF LoginRequired(session)
                        THEN Expenses(expenses, session, start_date, end_date, ord)
                        ELSE Unauthorized)
      /\ UNCHANGED <<users, expenses, session, pending>>

ListExpenses == ExpensesReq({<<>>})

\* GET /add
AddExpenseForm ==
  /\ last' = Record(Request("add", "GET", session, "", 0, NoForm, <<>>, <<>>, "ok"),
                    IF LoginRequired(session)
                    THEN Render("add_expense.html", <<>>, NoData)
                    ELSE Unauthorized)
  /\ UNCHANGED <<users, expenses, session, pending>>

\* POST /add
AddExpense ==
  \E form \in Forms, store \in StoreOutcomes :
    \E r \in {IF LoginRequired(session)
                THEN AddExpensePost(expenses, session, form, store)
                ELSE [expenses |-> expenses, resp |-> Unauthorized]} :
       /\ DOMAIN r.expenses \subseteq 1..MaxId
       /\ expenses' = r.expenses
       /\ last' = Record(Request("add", "POST", session, "", 0, form, <<>>, <<>>, store),
                         r.resp)
       /\ UNCHANGED <<users, session, pending>>

\* GET /edit/<id>
EditExpenseForm ==
  \E id \in 1..MaxId :
    /\ last' = Record(Request("edit", "GET", session, "", id, NoForm, <<>>, <<>>, "ok"),
                      IF LoginRequired(session)
                      THEN EditExpense(expenses, session, id, "GET", NoForm).resp
                      ELSE Unauthorized)
    /\ UNCHANGED <<users, expenses, session, pending>>

\* POST /edit/<id>: the request served whole, or its lines 157-167 alone
\* where the commit is next and nothing else is in flight
EditExpenseReq(forms) ==
  \E id \in 1..MaxId, form \in forms :
    \E r \in {IF LoginRequired(session)
                THEN EditExpense(expenses, session, id, "POST", form)
                ELSE [commit |-> FALSE, resp |-> Unauthorized]} :
       IF ~r.commit
       THEN /\ last' = Record(Request("edit", "POST", session, "", id, form,
                                      <<>>, <<>>, "ok"),
                              r.resp)
            /\ UNCHANGED <<users, expenses, session, pending>>
       ELSE \/ /\ pending = NoPending
               /\ pending' = [NoPending EXCEPT !.kind = "edit", !.uid = session,
                                               !.id = id, !.form = form,
                                               !.loaded = expenses[id]]
               /\ last' = NothingServed
               /\ UNCHANGED <<users, expenses, session>>
            \/ \E store \in StoreOutcomes :
                 \E c \in {CommitEdit(expenses, id, expenses[id], form, store)} :
                   /\ expenses' = c.expenses
                   /\ last' = Record(Request("edit", "POST", session, "", id, form,
                                             <<>>, <<>>, store),
                                     c.resp)
                   /\ UNCHANGED <<users, session, pending>>

EditExpensePost == EditExpenseReq(Forms)

\* POST /edit/<id> from the commit of line 168 on
EditExpenseCommit ==
  /\ pending.kind = "edit"
  /\ \E store \in StoreOutcomes :
       \E r \in {CommitEdit(expenses, pending.id, pending.loaded, pending.form, store)} :
          /\ expenses' = r.expenses
          /\ last' = Served(Request("edit", "POST", pending.uid, "", pending.id,
                                    pending.form, <<>>, <<>>, store),
                            r.resp)
  /\ pending' = NoPending
  /\ UNCHANGED <<users, session>>

\* GET /delete/<id>: the request served whole, or its lines 180-183 alone
\* where the delete is next and nothing else is in flight
DeleteExpenseReq ==
  \E id \in 1..MaxId :
    \E r \in {IF LoginRequired(session)
                THEN DeleteExpense(expenses, session, id)
                ELSE [commit |-> FALSE, resp |-> Unauthorized]} :
       IF ~r.commit
       THEN /\ last' = Record(Request("delete", "GET", session, "", id, NoForm,
                                      <<>>, <<>>, "ok"),
                              r.resp)
            /\ UNCHANGED <<users, expenses, session, pending>>
       ELSE \/ /\ pending = NoPending
               /\ pending' = [NoPending EXCEPT !.kind = "delete", !.uid = session,
                                               !.id = id]
               /\ last' = NothingServed
               /\ UNCHANGED <<users, expenses, session>>
            \/ \E store \in StoreOutcomes :
                 \E c \in {CommitDelete(expenses, id, store)} :
                   /\ expenses' = c.expenses
                   /\ last' = Record(Request("delete", "GET", session, "", id, NoForm,
                                             <<>>, <<>>, store),
                                     c.resp)
                   /\ UNCHANGED <<users, session, pending>>

\* GET /delete/<id> from the try of line 184 on
DeleteExpenseCommit ==
  /\ pending.kind = "delete"
  /\ \E store \in StoreOutcomes :
       \E r \in {CommitDelete(expenses, pending.id, store)} :
          /\ expenses' = r.expenses
          /\ last' = Served(Request("delete", "GET", pending.uid, "", pending.id,
                                    NoForm, <<>>, <<>>, store),
                            r.resp)
  /\ pending' = NoPending
  /\ UNCHANGED <<users, session>>

\* GET /dashboard: the query by category of lines 200-202
DashboardReq ==
  IF ~LoginRequired(session)
  THEN /\ last' = Record(Request("dashboard", "GET", session, "", 0, NoForm,
                                 <<>>, <<>>, "ok"),
                         Unauthorized)
       /\ UNCHANGED <<users, expenses, session, pending>>
  ELSE IF pending = NoPending
  THEN \E ord \in Orders(FilterByUser(expenses, session)) :
         /\ pending' = [NoPending EXCEPT
                          !.kind = "dashboard", !.uid = session,
                          !.expense_data = CategoryTotals(expenses, session, ord)]
         /\ last' = NothingServed
         /\ UNCHANGED <<users, expenses, session>>
  ELSE UNCHANGED vars

\* GET /dashboard from the query by month of lines 208-211 on
DashboardMonthly ==
  /\ pending.kind = "dashboard"
  /\ \E ord \in Orders(FilterByUser(expenses, pending.uid)) :
       last' = Served(Request("dashboard", "GET", pending.uid, "", 0, NoForm,
                              <<>>, <<>>, "ok"),
                      Dashboard(pending.expense_data,
                                MonthlyTotals(expenses, pending.uid, ord)))
  /\ pending' = NoPending
  /\ UNCHANGED <<users, expenses, session>>

\* GET /export
ExportReq ==
  \E ord \in Orders(IF LoginRequired(session)
                    THEN FilterByUser(expenses, session) ELSE {}) :
    /\ last' = Record(Request("export", "GET", session, "", 0, NoForm, <<>>, <<>>, "ok"),
                      IF LoginRequired(session)
                      THEN Export(expenses, session, ord)
                      ELSE Unauthorized)
    /\ UNCHANGED <<users, expenses, session, pending>>

Next ==
  \/ Home \/ RegisterForm \/ Register \/ RegisterInsert \/ LoginForm \/ Login
  \/ Logout \/ ListExpenses \/ AddExpenseForm \/ AddExpense \/ EditExpenseForm
  \/ EditExpensePost \/ EditExpenseCommit \/ DeleteExpenseReq \/ DeleteExpenseCommit
  \/ DashboardReq \/ DashboardMonthly \/ ExportReq

Spec == Init /\ [][Next]_vars

----------------------------------------------------------------------------
(* The queries on a stored table.  Two users are registered and the first  *)
(* is logged in; the expense table is any table of at most MaxRows rows     *)
(* drawn from PoolRows, rows that add_expense stores for the inputs below.  *)

StoredRow(desc, amount, date, category, uid) ==
  [description |-> desc, amount |-> ParseFloat(amount), date |-> ParseDate(date),
   category |-> category, user_id |-> uid]

PoolRows ==
  {StoredRow("Coffee", a, d, c, 1) :
     a \in {A1, A1e16}, d \in {D20230301, D20240115, D20240310}, c \in {"Food", "Rent"}}
  \cup {StoredRow("Tea", A1, D20240115, "Food", 2),
        StoredRow("Tea", A1e16, D20240310, "Rent", 2)}

InitQuery ==
  /\ users = <<[username |-> "alice", password |-> GeneratePasswordHash("pw1")],
               [username |-> "bob", password |-> GeneratePasswordHash("pw1")]>>
  /\ session = 1
  /\ \E S \in SUBSET PoolRows :
       /\ Cardinality(S) <= MaxRows
       /\ expenses = (CHOOSE f \in Orders(S) : TRUE)
  /\ pending = NoPending
  /\ last = NothingServed

\* A query leaves the tables as they are: a second one after it reaches no
\* state the first one does not, so each drawn table is queried once.
Fresh == last = NothingServed /\ pending = NoPending

ListExpensesBounded == Fresh /\ ExpensesReq(DateArgs)

DashboardOnce == Fresh /\ DashboardReq

ExportOnce == Fresh /\ ExportReq

NextQuery == ListExpensesBounded \/ DashboardOnce \/ DashboardMonthly \/ ExportOnce

SpecQuery == InitQuery /\ [][NextQuery]_vars

----------------------------------------------------------------------------
(* Edits of one stored expense that overlap.  A user is registered and      *)
(* logged in and has one expense, stored by add_expense from the first of   *)
(* EditForms; the requests are POST edits with the forms of EditForms.      *)

InitEdit ==
  /\ users = <<[username |-> "alice", password |-> GeneratePasswordHash("pw1")]>>
  /\ session = 1
  /\ expenses = <<StoredRow("Coffee", A350, D20240115, "Food", 1)>>
  /\ pending = NoPending
  /\ last = NothingServed

EditExpenseOverlapping == EditExpenseReq(EditForms)

NextEdit == EditExpenseOverlapping \/ EditExpenseCommit

SpecEdit == InitEdit /\ [][NextEdit]_vars
----------------------------------------------------------------------------
(* Properties. *)

\* The form's amount and date parse: float() and strptime raise nothing.
FormParses(f) == ParseFloat(f.amount) # NoFloat /\ ParseDate(f.date) # NoDate

\* The form is valid: its date is a date and its amount is a number.
FormValid(f) == FormParses(f) /\ ParseFloat(f.amount) # NaN

\* The row a valid form writes for owner uid.
FormRow(f, uid) ==
  [description |-> f.description, amount |-> ParseFloat(f.amount),
   date |-> ParseDate(f.date), category |-> f.category, user_id |-> uid]

AnOrder(S) == CHOOSE o \in Orders(S) : TRUE

\* What user a gets from the store: the listing, the two dashboard series and
\* the exported rows.
View(db, a) ==
  LET ord == AnOrder(FilterByUser(db, a))
  IN <<Range(Expenses(db, a, <<>>, <<>>, ord).data.rows),
       CategoryTotals(db, a, ord), MonthlyTotals(db, a, ord), ExportRows(db, a, ord)>>

\* The user a step is taken for: the one of the request in flight where the
\* step ends it, the one logged in otherwise.
Caller == IF pending # NoPending /\ pending' = NoPending THEN pending.uid ELSE session

\* C1: an edit (GET or POST) or a delete of an expense by a logged-in user who
\* is not its owner is answered with the not-authorized flash and the redirect
\* to the listing, and leaves every stored expense and every user as it was;
\* no such request gets as far as its commit.
C1_NonOwnerForbidden ==
  [][/\ \A id \in DOMAIN expenses :
          ( /\ pending = NoPending
            /\ last'.req.op \in {"edit", "delete"}
            /\ last'.req.id = id
            /\ last'.req.uid # 0
            /\ expenses[id].user_id # last'.req.uid )
          => /\ last'.resp = (IF last'.req.op = "edit" THEN ForbiddenEdit
                              ELSE ForbiddenDelete)
             /\ expenses' = expenses
             /\ users' = users
     /\ (pending = NoPending /\ pending'.kind \in {"edit", "delete"})
          => /\ pending'.id \in DOMAIN expenses
             /\ expenses[pending'.id].user_id = pending'.uid]_vars

\* A POST edit with a valid form by a user who does not own the expense was
\* refused, the expense still its owner's.
C1_Witness ==
  /\ last.req.op = "edit" /\ last.req.method = "POST"
  /\ FormValid(last.req.form)
  /\ last.req.uid # 0
  /\ last.req.id \in DOMAIN expenses
  /\ expenses[last.req.id].user_id # last.req.uid
  /\ expenses[last.req.id].user_id # 0
  /\ last.resp = ForbiddenEdit

\* C2: a POST edit by the owner is all or nothing.  It leaves the stored row
\* with all its previous values or with the four of the form, never with
\* some of each; with a field that is not valid it leaves the previous ones;
\* served whole with every field valid (and a store that takes the commit)
\* it stores the four of the form; no other row changes.
C2_EditAllOrNothing ==
  [][\A id \in DOMAIN expenses :
       ( /\ last'.req.op = "edit" /\ last'.req.method = "POST"
         /\ last'.req.id = id
         /\ last'.req.uid # 0
         /\ expenses[id].user_id = last'.req.uid )
       => /\ DOMAIN expenses' = DOMAIN expenses
          /\ \A j \in DOMAIN expenses \ {id} : expenses'[j] = expenses[j]
          /\ \/ expenses'[id] = expenses[id]
             \/ /\ FormValid(last'.req.form)
                /\ expenses'[id] = FormRow(last'.req.form, expenses[id].user_id)
          /\ ( /\ FormValid(last'.req.form)
               /\ last'.req.store = "ok"
               /\ pending = NoPending )
             => expenses'[id] = FormRow(last'.req.form, expenses[id].user_id)]_vars

\* C3: the listing holds exactly the caller's expenses dated within the bounds
\* that were given and parse, each once, latest first; a bound that does not
\* parse is flashed as a warning and dropped, and the listing is rendered.
C3_ListFiltered ==
  (last.req.op = "expenses" /\ session # 0) =>
    LET s == last.req.start_date
        e == last.req.end_date
        rows == last.resp.data.rows
        expected ==
          {Row(expenses, i) : i \in
             {j \in DOMAIN expenses :
                /\ expenses[j].user_id = session
                /\ (s # <<>> /\ ParseDate(s) # NoDate)
                     => DateKey(ParseDate(s)) <= DateKey(expenses[j].date)
                /\ (e # <<>> /\ ParseDate(e) # NoDate)
                     => DateKey(expenses[j].date) <= DateKey(ParseDate(e))}}
    IN /\ last.resp.kind = "render" /\ last.resp.to = "expenses.html"
       /\ Range(rows) = expected
       /\ Len(rows) = Cardinality(expected)
       /\ \A k \in 1..(Len(rows) - 1) :
            DateKey(rows[k].date) >= DateKey(rows[k + 1].date)
       /\ (s # <<>> /\ ParseDate(s) = NoDate)
            <=> Message("Invalid start date format. Use YYYY-MM-DD.")
                   \in Range(last.resp.flash)
       /\ (e # <<>> /\ ParseDate(e) = NoDate)
            <=> Message("Invalid end date format. Use YYYY-MM-DD.")
                   \in Range(last.resp.flash)

\* A listing with a start that does not parse and an end that does: the end
\* bound alone cut the caller's rows, two of them left in date order.
C3_Witness ==
  /\ last.req.op = "expenses"
  /\ last.req.start_date = D20240230 /\ last.req.end_date = D20240115
  /\ Len(last.resp.data.rows) = 2
  /\ last.resp.data.rows[1].date # last.resp.data.rows[2].date
  /\ Cardinality(FilterByUser(expenses, session)) = 3
  /\ last.resp.flash = <<Message("Invalid start date format. Use YYYY-MM-DD.")>>

\* The exact sum of the doubles of the tagged set S, a number of any length
\* (not rounded).
RECURSIVE ExactSum(_)
ExactSum(S) ==
  IF S = {} THEN Zero
  ELSE LET x == CHOOSE y \in S : TRUE
       IN ExactAdd(ExactSum(S \ {x}), x[2])

\* The number x is a double: rounding leaves it as it is.
IsDouble(x) == Round(x.s, x.m, x.e, FALSE) = x

\* The doubles that adding the values of the tagged set S one after the other
\* can give, over the orders of adding them.
FloatSums(S) ==
  {LET f[k \in 0..Cardinality(S)] ==
         IF k = 0 THEN Zero ELSE FAdd(f[k - 1], o[k][2])
   IN f[Cardinality(S)] : o \in Orders(S)}

\* The monthly series as (month, total) pairs; the months of total 0 are left
\* out, adding 0 changes no sum.
MonthlyPairs(monthlyData) ==
  {<<m, monthlyData[m]>> : m \in {k \in 1..Len(monthlyData) : monthlyData[k] # Zero}}

\* The amounts of the caller's rows of month m, tagged by row id.
MonthAmounts(m) ==
  {<<i, expenses[i].amount>> :
     i \in {j \in FilterByUser(expenses, session) : expenses[j].date.m = m}}

\* The two grand totals agree: as exact sums of the returned values, or as the
\* doubles that adding the returned values gives (in some order, or rounded
\* once from the exact sum).
GrandTotalsAgree(monthlyData, expense_data) ==
  LET mp == MonthlyPairs(monthlyData)
      em == ExactSum(mp)
      ec == ExactSum(expense_data)
  IN \/ em = ec
     \/ FloatSums(mp) \cap FloatSums(expense_data) # {}
     \/ Round(em.s, em.m, em.e, FALSE) = Round(ec.s, ec.m, ec.e, FALSE)

\* C4 as claimed: the dashboard's monthly series has 12 entries, January to
\* December, entry m the sum of the amounts of the caller's expenses of month
\* m of any year (0 with none), and the 12 entries add up to what the
\* category totals add up to.
C4_MonthlyTotalsAsClaimed ==
  (last.req.op = "dashboard" /\ session # 0) =>
    LET d == last.resp.data
    IN /\ Len(d.monthlyData) = 12
       /\ d.monthlyLabels = month_abbr
       /\ \A m \in 1..12 : d.monthlyData[m] \in FloatSums(MonthAmounts(m))
       /\ GrandTotalsAgree(d.monthlyData, d.expense_data)

\* No addition of amounts of the caller rounds: the sum of every set of them
\* is a double.
AdditionsExact ==
  \A T \in SUBSET {<<i, expenses[i].amount>> : i \in FilterByUser(expenses, session)} :
    IsDouble(ExactSum(T))

\* C4 as amended: 12 entries, January to December, entry m the floating-point
\* sum of the amounts of the caller's expenses of month m of any year (0 with
\* none); where no addition of the caller's amounts rounds, entry m is the
\* exact sum and the 12 entries add up to exactly what the category totals add
\* up to, the sum of all the caller's amounts.
C4_MonthlyTotals ==
  (last.req.op = "dashboard" /\ session # 0) =>
    LET d == last.resp.data
        all == {<<i, expenses[i].amount>> : i \in FilterByUser(expenses, session)}
    IN /\ Len(d.monthlyData) = 12
       /\ d.monthlyLabels = month_abbr
       /\ \A m \in 1..12 : d.monthlyData[m] \in FloatSums(MonthAmounts(m))
       /\ AdditionsExact =>
            /\ \A m \in 1..12 : d.monthlyData[m] = ExactSum(MonthAmounts(m))
            /\ ExactSum(MonthlyPairs(d.monthlyData)) = ExactSum(all)
            /\ ExactSum(d.expense_data) = ExactSum(all)

\* The dashboard of a user with expenses of 1 on 2023-03-01 and on 2024-03-10
\* and one more in January: March is 2, January 1, every other month 0.
C4_Witness ==
  /\ last.req.op = "dashboard" /\ session # 0
  /\ AdditionsExact
  /\ \E i, j \in FilterByUser(expenses, session) :
       /\ expenses[i].date = [y |-> 2023, m |-> 3, d |-> 1]
       /\ expenses[j].date = [y |-> 2024, m |-> 3, d |-> 10]
       /\ expenses[i].category # expenses[j].category
  /\ Cardinality(FilterByUser(expenses, session)) = 3
  /\ last.resp.data.monthlyData[3] = Float("finite", 0, <<1>>, 1)
  /\ last.resp.data.monthlyData[1] = Float("finite", 0, <<1>>, 0)
  /\ \A m \in 4..12 : last.resp.data.monthlyData[m] = Zero

\* The registration on record found its username free and its commit raised
\* nothing: one user of that name is appended, the others are as they were.
RegisteredOne ==
  /\ last'.resp = Registered
  /\ Len(users') = Len(users) + 1
  /\ SubSeq(users', 1, Len(users)) = users
  /\ users'[Len(users')].username = last'.req.username

Listed(db, uid) ==
  Range(Expenses(db, uid, <<>>, <<>>, AnOrder(FilterByUser(db, uid))).data.rows)

\* C6: after a POST add of a valid form that the store takes, the caller's
\* listing without bounds holds its rows of before and exactly one more, which
\* carries the form's description, amount, date and category and the caller
\* as owner; every row stored before is as it was.
C6_AddThenList ==
  [][( /\ last'.req.op = "add" /\ last'.req.method = "POST"
       /\ last'.req.uid # 0
       /\ last'.req.store = "ok"
       /\ FormValid(last'.req.form) )
     => LET f == last'.req.form
            before == Listed(expenses, last'.req.uid)
            after == Listed(expenses', last'.req.uid)
        IN /\ before \subseteq after
           /\ Cardinality(after \ before) = 1
           /\ \A r \in after \ before :
                /\ r.id \notin DOMAIN expenses
                /\ r.description = f.description
                /\ r.amount = ParseFloat(f.amount)
                /\ r.date = ParseDate(f.date)
                /\ r.category = f.category
                /\ r.user_id = last'.req.uid
           /\ \A j \in DOMAIN expenses :
                j \in DOMAIN expenses' /\ expenses'[j] = expenses[j]]_vars

\* A valid add was just stored for a caller who had an expense before.
C6_Witness ==
  /\ last.req.op = "add" /\ last.req.method = "POST"
  /\ last.resp = Redirect("expenses", <<Message("Expense added successfully!")>>)
  /\ last.req.uid # 0
  /\ \E i, j \in FilterByUser(expenses, last.req.uid) :
       i # j /\ expenses[i].description # expenses[j].description

Protected == {"logout", "expenses", "add", "edit", "delete", "dashboard", "export"}

\* C7: with nobody logged in, every route behind login_required answers with
\* the redirect to the login page, carries no expense data, starts no work on
\* the store, and leaves the users, the expenses and the session as they were;
\* no request sent with nobody logged in changes an expense.
C7_Unauthenticated ==
  [][/\ (session = 0 /\ pending = NoPending) =>
          /\ pending'.kind \in {"none", "register"}
          /\ last'.req.op \in Protected =>
               /\ last'.resp = Unauthorized
               /\ last'.resp.data = NoData
               /\ users' = users /\ expenses' = expenses /\ session' = 0
     /\ (session = 0 /\ pending' = pending) => expenses' = expenses]_vars

\* After a logout, a POST edit of a stored expense was turned away.
C7_Witness ==
  /\ session = 0
  /\ last.req.op = "edit" /\ last.req.method = "POST"
  /\ FormValid(last.req.form)
  /\ last.req.id \in DOMAIN expenses
  /\ last.resp = Unauthorized

\* C8: a POST add, or a POST edit by the owner, of a form whose amount or date
\* does not parse is answered with a flash and the redirect back to the form.
C8_FormatErrorsRecovered ==
  ( /\ last.req.op \in {"add", "edit"} /\ last.req.method = "POST"
    /\ ~FormParses(last.req.form)
    /\ last.req.uid # 0
    /\ last.req.op = "edit" =>
         /\ last.req.id \in DOMAIN expenses
         /\ expenses[last.req.id].user_id = last.req.uid )
  => /\ last.resp.kind = "redirect"
     /\ last.resp.to = (IF last.req.op = "add" THEN "add_expense" ELSE "edit_expense")
     /\ last.resp.flash # <<>>

\* The amounts of the rows ids of db, tagged by row id.
Amounts(db, ids) == {<<i, db[i].amount>> : i \in ids}

\* C9: a step taken for another user than a leaves what a gets from the
\* listing, the category totals, the monthly totals and the export as it was,
\* and what a user gets is made of that user's rows and no other: the listing
\* and the export hold them all, each sum is one of the amounts of them.
C9_Isolation ==
  [][/\ \A a \in 1..Len(users) :
          Caller # a =>
            (expenses' = expenses \/ View(expenses', a) = View(expenses, a))
     /\ (last'.req.op = "expenses" /\ last'.req.uid # 0 /\ last'.req.start_date = <<>>
           /\ last'.req.end_date = <<>>) =>
          Range(last'.resp.data.rows)
            = {Row(expenses, i) : i \in FilterByUser(expenses, last'.req.uid)}
     /\ (last'.req.op = "expenses" /\ last'.req.uid # 0) =>
          \A r \in Range(last'.resp.data.rows) :
             r.id \in DOMAIN expenses /\ r = Row(expenses, r.id)
                /\ r.user_id = last'.req.uid
     /\ (last'.req.op = "export" /\ last'.req.uid # 0) =>
          Range(Tail(last'.resp.data.rows))
            = {<<FormatDate(expenses[i].date), expenses[i].description,
                 expenses[i].category, expenses[i].amount>> :
                 i \in FilterByUser(expenses, last'.req.uid)}
     /\ (pending = NoPending /\ pending'.kind = "dashboard") =>
          \A t \in pending'.expense_data :
             t[2] \in FloatSums(Amounts(expenses,
                        {i \in FilterByUser(expenses, pending'.uid) :
                           expenses[i].category = t[1]}))
     /\ (pending.kind = "dashboard" /\ pending' = NoPending) =>
          \A m \in 1..12 :
             last'.resp.data.monthlyData[m]
               \in FloatSums(Amounts(expenses,
                     {i \in FilterByUser(expenses, pending.uid) :
                        expenses[i].date.m = m}))]_vars

\* C10: no two users share a username, and a registration that made its
\* lookup before another request registered, and its insert after, with the
\* store taking statements, ends as one made whole does: with the username
\* taken in between it is answered with the username-exists flash and the
\* redirect to the registration form and adds nothing; else it succeeds and
\* adds one user.
C10_ConcurrentRegister ==
  [][/\ \A i, j \in 1..Len(users') :
          users'[i].username = users'[j].username => i = j
     /\ (pending.kind = "register" /\ pending' = NoPending
           /\ last'.req.store = "ok") =>
          IF FirstUser(users, pending.username) # 0
          THEN last'.resp = DuplicateUsername /\ users' = users
          ELSE last'.resp = Registered /\ Len(users') = Len(users) + 1]_vars

====
